---- MODULE Spec2Model ----
(***************************************************************************)
(* RiskAnalyzer (src/Day_1_AI_Refactored_RiskAnalyzer.py): an object that  *)
(* stores a tuple of daily returns and computes the population standard    *)
(* deviation of it, of its two halves, and a summary.                      *)
(*                                                                         *)
(* Numbers.  The elements are Python ints (exact) and Python floats.  A    *)
(* float is a binary floating-point number: every float result is the      *)
(* exact result rounded to the nearest representable value, ties to even.  *)
(* The model keeps that rule and shortens the significand from 53 bits to  *)
(* Prec bits; the exponent range is not bounded, so overflow (inf, and the *)
(* OverflowError of ** on huge values) and underflow are not modelled.     *)
(* nan is a float like any other for isinstance and propagates through the *)
(* arithmetic as IEEE 754 says.  An int operand of a float operation is    *)
(* taken exactly (CPython converts it to a float first, which is exact for *)
(* every int below 2^53).                                                  *)
(*                                                                         *)
(* Two results depend on the build and are modelled by their usual value:  *)
(* sum() adds left to right, rounding each partial sum (CPython up to      *)
(* 3.11; later versions compensate the partial sums of floats), and x ** 2 *)
(* is the correctly rounded square (C pow(x, 2.0), which a libm may round  *)
(* to the other neighbouring float when the square is not representable).  *)
(***************************************************************************)
EXTENDS Integers, Sequences, FiniteSets, TLC

\* Significand width of the modelled float format (CPython: 53).
Prec == 3
\* Longest tuple handed to the constructor.
MaxLen == 6

----------------------------------------------------------------------------
(* Python values *)

\* A value: its type (ty), for a number whether it is finite or nan (k), and
\* for a finite number its value m * 2^e (an int has e = 0; a float has m odd
\* or m = e = 0).
PyInt(n) == [ty |-> "int", k |-> "fin", m |-> n, e |-> 0]
NaN == [ty |-> "float", k |-> "nan", m |-> 0, e |-> 0]
PyStr == [ty |-> "str", k |-> "obj", m |-> 0, e |-> 0]

Pow2(n) == 2 ^ n

Abs(x) == IF x < 0 THEN -x ELSE x
Min2(a, b) == IF a <= b THEN a ELSE b

\* The float m * 2^e, with the trailing zero bits of m moved into e.
RECURSIVE PyFloat(_, _)
PyFloat(m, e) ==
    IF m = 0 THEN [ty |-> "float", k |-> "fin", m |-> 0, e |-> 0]
    ELSE IF m % 2 = 0 THEN PyFloat(m \div 2, e + 1)
    ELSE [ty |-> "float", k |-> "fin", m |-> m, e |-> e]

\* Scale a / den * 2^e until a \div den has exactly Prec + 1 bits.
RECURSIVE ScaleUp(_, _, _)
ScaleUp(a, den, e) ==
    IF a >= Pow2(Prec) * den THEN <<a, den, e>> ELSE ScaleUp(2 * a, den, e - 1)

RECURSIVE ScaleDown(_, _, _)
ScaleDown(a, den, e) ==
    IF a < Pow2(Prec + 1) * den THEN <<a, den, e>> ELSE ScaleDown(a, 2 * den, e + 1)

\* Round to nearest, ties to even, given the Prec + 1 leading bits s of the
\* magnitude (value s * 2^e plus a non-zero rest iff sticky).
RoundBits(sign, s, sticky, e) ==
    LET q  == s \div 2
        up == s % 2 = 1 /\ (sticky \/ q % 2 = 1)
    IN  PyFloat(sign * (IF up THEN q + 1 ELSE q), e + 1)

\* The float nearest to num / den * 2^e (den > 0).
RoundQ(num, den, e) ==
    IF num = 0 THEN PyFloat(0, 0)
    ELSE LET u == ScaleUp(Abs(num), den, e)
             d == ScaleDown(u[1], u[2], u[3])
         IN  RoundBits(IF num < 0 THEN -1 ELSE 1, d[1] \div d[2], d[1] % d[2] # 0, d[3])

IsNaN(x) == x.k = "nan"
IsZero(x) == x.k = "fin" /\ x.m = 0

\* x + y and x - y of Python numbers: int with int is exact, anything else
\* is a float operation.
AddSigned(x, y, sy) ==
    IF x.ty = "int" /\ y.ty = "int" THEN PyInt(x.m + sy * y.m)
    ELSE IF IsNaN(x) \/ IsNaN(y) THEN NaN
    ELSE LET lo == Min2(x.e, y.e)
         IN  RoundQ(x.m * Pow2(x.e - lo) + sy * y.m * Pow2(y.e - lo), 1, lo)

Add(x, y) == AddSigned(x, y, 1)
Sub(x, y) == AddSigned(x, y, -1)

\* x * y.
Mul(x, y) ==
    IF x.ty = "int" /\ y.ty = "int" THEN PyInt(x.m * y.m)
    ELSE IF IsNaN(x) \/ IsNaN(y) THEN NaN
    ELSE RoundQ(x.m * y.m, 1, x.e + y.e)

\* x ** 2.
Square(x) == Mul(x, x)

\* x / y for y # 0: always a float, correctly rounded also for int / int.
TrueDiv(x, y) ==
    IF IsNaN(x) \/ IsNaN(y) THEN NaN
    ELSE RoundQ((IF y.m < 0 THEN -1 ELSE 1) * x.m, Abs(y.m), x.e - y.e)

\* x < y; false when either is nan.
Less(x, y) ==
    /\ ~IsNaN(x)
    /\ ~IsNaN(y)
    /\ LET lo == Min2(x.e, y.e)
       IN  x.m * Pow2(x.e - lo) < y.m * Pow2(y.e - lo)

\* math.sqrt(x) for a float x >= 0: the correctly rounded square root. The
\* exponent is made even and the significand scaled by 4 until its integer
\* square root has Prec + 1 bits.
RECURSIVE ScaleUp4(_, _)
ScaleUp4(a, f) ==
    IF a >= Pow2(2 * Prec) THEN <<a, f>> ELSE ScaleUp4(4 * a, f - 2)

Sqrt(x) ==
    IF IsNaN(x) THEN NaN
    ELSE IF x.m = 0 THEN PyFloat(0, 0)
    ELSE LET u == IF x.e % 2 = 0 THEN ScaleUp4(x.m, x.e) ELSE ScaleUp4(2 * x.m, x.e - 1)
             s == CHOOSE r \in Pow2(Prec)..(Pow2(Prec + 1) - 1) :
                      r * r <= u[1] /\ u[1] < (r + 1) * (r + 1)
         IN  RoundBits(1, s, s * s # u[1], u[2] \div 2)

\* sum(seq): left to right from the int 0.
RECURSIVE SumFrom(_, _, _)
SumFrom(acc, seq, i) ==
    IF i > Len(seq) THEN acc ELSE SumFrom(Add(acc, seq[i]), seq, i + 1)

sum(seq) == SumFrom(PyInt(0), seq, 1)

\* min(seq), max(seq) of a non-empty seq: the first element, replaced by each
\* later item that compares less (greater) than the one held.
RECURSIVE MinFrom(_, _, _)
MinFrom(cur, seq, i) ==
    IF i > Len(seq) THEN cur
    ELSE MinFrom(IF Less(seq[i], cur) THEN seq[i] ELSE cur, seq, i + 1)

RECURSIVE MaxFrom(_, _, _)
MaxFrom(cur, seq, i) ==
    IF i > Len(seq) THEN cur
    ELSE MaxFrom(IF Less(cur, seq[i]) THEN seq[i] ELSE cur, seq, i + 1)

min(seq) == MinFrom(seq[1], seq, 2)
max(seq) == MaxFrom(seq[1], seq, 2)

\* seq[lo:hi] with 0 <= lo <= hi <= len(seq).
Slice(seq, lo, hi) == SubSeq(seq, lo + 1, hi)

----------------------------------------------------------------------------
(* Outcomes of a call *)

\* A call returns a value or raises; tb is the traceback, the source lines
\* from the outermost frame to the raise.
Return(v) == [st |-> "return", exc |-> "", tb |-> <<>>, val |-> v]
Raise(exc, line) == [st |-> "raise", exc |-> exc, tb |-> <<line>>, val |-> <<>>]
\* An exception passing through the call made at `line`.
Propagate(r, line) == [r EXCEPT !.tb = <<line>> \o @]
NoOutcome == [st |-> "none", exc |-> "", tb |-> <<>>, val |-> <<>>]

\* The optional parameter `returns`: None, or a sequence.
None == [none |-> TRUE, seq |-> <<>>]
Given(seq) == [none |-> FALSE, seq |-> seq]

----------------------------------------------------------------------------
(* class RiskAnalyzer; self is the value of self.daily_returns *)

\* __init__: the outcome; on return, val is what self.daily_returns is set to.
init(daily_returns) ==
    IF Len(daily_returns) = 0 THEN Raise("ValueError", 27)
    ELSE IF ~(\A i \in 1..Len(daily_returns) : daily_returns[i].ty \in {"int", "float"})
    THEN Raise("ValueError", 30)
    ELSE Return(daily_returns)

\* calculate_volatility with the sample divisor n - 1 for the variance.
calculate_volatility_sample(self, returns) ==
    LET rs == IF returns.none THEN self ELSE returns.seq
        n  == PyInt(Len(rs))
    IN  IF IsZero(n) THEN Raise("ZeroDivisionError", 51)
        ELSE IF IsZero(PyInt(Len(rs) - 1)) THEN Raise("ZeroDivisionError", 53)
        ELSE LET mean         == TrueDiv(sum(rs), n)
                 squared_diff == [i \in 1..Len(rs) |-> Square(Sub(rs[i], mean))]
                 variance     == TrueDiv(sum(squared_diff), PyInt(Len(rs) - 1))
             IN  Return(Sqrt(variance))

\* calculate_volatility answering 0.0 for an empty sequence.
calculate_volatility_empty_zero(self, returns) ==
    LET rs == IF returns.none THEN self ELSE returns.seq
        n  == PyInt(Len(rs))
    IN  IF IsZero(n) THEN Return(PyFloat(0, 0))
        ELSE LET mean         == TrueDiv(sum(rs), n)
                 squared_diff == [i \in 1..Len(rs) |-> Square(Sub(rs[i], mean))]
                 variance     == TrueDiv(sum(squared_diff), n)
             IN  Return(Sqrt(variance))

\* calculate_volatility testing `not returns` in place of `returns is None`.
calculate_volatility_falsy(self, returns) ==
    LET rs == IF returns.none \/ Len(returns.seq) = 0 THEN self ELSE returns.seq
        n  == PyInt(Len(rs))
    IN  IF IsZero(n) THEN Raise("ZeroDivisionError", 51)
        ELSE LET mean         == TrueDiv(sum(rs), n)
                 squared_diff == [i \in 1..Len(rs) |-> Square(Sub(rs[i], mean))]
                 variance     == TrueDiv(sum(squared_diff), n)
             IN  Return(Sqrt(variance))

calculate_volatility(self, returns) ==
    LET rs == IF returns.none THEN self ELSE returns.seq
        n  == PyInt(Len(rs))
    IN  IF IsZero(n) THEN Raise("ZeroDivisionError", 51)
        ELSE LET mean         == TrueDiv(sum(rs), n)
                 squared_diff == [i \in 1..Len(rs) |-> Square(Sub(rs[i], mean))]
                 variance     == TrueDiv(sum(squared_diff), n)
             IN  IF variance.k = "fin" /\ variance.m < 0
                 THEN Raise("ValueError", 54)
                 ELSE Return(Sqrt(variance))

\* split_period with the midpoint rounded up.
split_period_ceil(self) ==
    LET midpoint    == (Len(self) + 1) \div 2
        first_half  == Slice(self, 0, midpoint)
        second_half == Slice(self, midpoint, Len(self))
    IN  Return(<<first_half, second_half>>)

split_period(self) ==
    LET midpoint    == Len(self) \div 2
        first_half  == Slice(self, 0, midpoint)
        second_half == Slice(self, midpoint, Len(self))
    IN  Return(<<first_half, second_half>>)

\* compare_period_volatility with the change taken relative to the second
\* period.
compare_period_volatility_second(self) ==
    LET halves    == split_period(self).val
        vol_first == calculate_volatility(self, Given(halves[1]))
    IN  IF vol_first.st = "raise" THEN Propagate(vol_first, 84)
        ELSE LET vol_second == calculate_volatility(self, Given(halves[2]))
             IN  IF vol_second.st = "raise" THEN Propagate(vol_second, 85)
                 ELSE LET vol_change == Sub(vol_second.val, vol_first.val)
                      IN  IF IsZero(vol_second.val) THEN Raise("ZeroDivisionError", 87)
                          ELSE Return([
                              first_period_volatility   |-> vol_first.val,
                              second_period_volatility  |-> vol_second.val,
                              volatility_change         |-> vol_change,
                              volatility_change_percent |->
                                  Mul(TrueDiv(vol_change, vol_second.val), PyInt(100))])

compare_period_volatility(self) ==
    LET halves    == split_period(self).val
        vol_first == calculate_volatility(self, Given(halves[1]))
    IN  IF vol_first.st = "raise" THEN Propagate(vol_first, 84)
        ELSE LET vol_second == calculate_volatility(self, Given(halves[2]))
             IN  IF vol_second.st = "raise" THEN Propagate(vol_second, 85)
                 ELSE LET vol_change == Sub(vol_second.val, vol_first.val)
                      IN  IF IsZero(vol_first.val) THEN Raise("ZeroDivisionError", 87)
                          ELSE Return([
                              first_period_volatility   |-> vol_first.val,
                              second_period_volatility  |-> vol_second.val,
                              volatility_change         |-> vol_change,
                              volatility_change_percent |->
                                  Mul(TrueDiv(vol_change, vol_first.val), PyInt(100))])

get_summary_statistics(self) ==
    LET n == PyInt(Len(self))
    IN  IF IsZero(n) THEN Raise("ZeroDivisionError", 104)
        ELSE LET volatility == calculate_volatility(self, None)
             IN  IF volatility.st = "raise" THEN Propagate(volatility, 105)
                 ELSE Return([
                     mean       |-> TrueDiv(sum(self), n),
                     volatility |-> volatility.val,
                     min        |-> min(self),
                     max        |-> max(self),
                     count      |-> n])

----------------------------------------------------------------------------
(* The program: one analyzer and its caller *)

VARIABLES
    phase,          \* "new" before the constructor ran, then "alive" or "failed"
    input,          \* the tuple the constructor was called with
    daily_returns,  \* self.daily_returns of the analyzer, once it exists
    call,           \* the latest call: the method and its `returns` argument
    ret             \* the outcome of the latest call

vars == <<phase, input, daily_returns, call, ret>>

\* The float 2^(Prec-1) - 1 (CPython: 2.0**52 - 1): its threefold sum does not
\* fit the significand.
Ones == PyFloat(Pow2(Prec - 1) - 1, 0)

\* Elements a caller may put in the tuple: an int, a float, nan, and a str.
Numbers == {PyInt(1), Ones, NaN}
Elements == Numbers \cup {PyStr}

RECURSIVE SeqsUpTo(_, _)
SeqsUpTo(S, n) ==
    IF n = 0 THEN {<<>>}
    ELSE LET shorter == SeqsUpTo(S, n - 1)
         IN  shorter \cup {Append(q, x) : q \in {r \in shorter : Len(r) = n - 1}, x \in S}

\* Tuples handed to the constructor, and sequences handed to
\* calculate_volatility (as long as a half of the longest tuple).
Inputs == SeqsUpTo(Elements, MaxLen)
Arguments == {None} \cup {Given(q) : q \in SeqsUpTo({PyInt(1), Ones}, MaxLen \div 2)}

Init ==
    /\ phase = "new"
    /\ input = <<>>
    /\ daily_returns = <<>>
    /\ call = [op |-> "none", arg |-> None]
    /\ ret = NoOutcome

\* The caller is sequential: it makes a call once it has taken the outcome of
\* the previous one, or makes the previous call again.
MayCall(c) == phase = "alive" /\ (ret.st = "none" \/ call = c)

\* RiskAnalyzer(t)
Construct ==
    /\ phase = "new"
    /\ \E t \in Inputs :
        LET r == init(t)
        IN  /\ phase' = IF r.st = "return" THEN "alive" ELSE "failed"
            /\ daily_returns' = IF r.st = "return" THEN r.val ELSE daily_returns
            /\ ret' = IF r.st = "return" THEN Return(<<>>) ELSE r
            /\ input' = t
    /\ call' = [op |-> "__init__", arg |-> None]

\* analyzer.calculate_volatility() and analyzer.calculate_volatility(seq)
CalculateVolatility ==
    /\ \E a \in Arguments :
        /\ MayCall([op |-> "calculate_volatility", arg |-> a])
        /\ call' = [op |-> "calculate_volatility", arg |-> a]
        /\ ret' = calculate_volatility(daily_returns, a)
    /\ UNCHANGED <<phase, input, daily_returns>>

\* split_period keeping only the second half in self.daily_returns.
SplitPeriod_truncating ==
    /\ MayCall([op |-> "split_period", arg |-> None])
    /\ call' = [op |-> "split_period", arg |-> None]
    /\ ret' = split_period(daily_returns)
    /\ daily_returns' = split_period(daily_returns).val[2]
    /\ UNCHANGED <<phase, input>>

\* analyzer.split_period()
SplitPeriod ==
    /\ MayCall([op |-> "split_period", arg |-> None])
    /\ call' = [op |-> "split_period", arg |-> None]
    /\ ret' = split_period(daily_returns)
    /\ UNCHANGED <<phase, input, daily_returns>>

\* analyzer.compare_period_volatility()
ComparePeriodVolatility ==
    /\ MayCall([op |-> "compare_period_volatility", arg |-> None])
    /\ call' = [op |-> "compare_period_volatility", arg |-> None]
    /\ ret' = compare_period_volatility(daily_returns)
    /\ UNCHANGED <<phase, input, daily_returns>>

\* analyzer.get_summary_statistics()
GetSummaryStatistics ==
    /\ MayCall([op |-> "get_summary_statistics", arg |-> None])
    /\ call' = [op |-> "get_summary_statistics", arg |-> None]
    /\ ret' = get_summary_statistics(daily_returns)
    /\ UNCHANGED <<phase, input, daily_returns>>

\* The caller takes the outcome of the latest call.
TakeOutcome ==
    /\ phase = "alive"
    /\ ret.st # "none"
    /\ call' = [op |-> "none", arg |-> None]
    /\ ret' = NoOutcome
    /\ UNCHANGED <<phase, input, daily_returns>>

Next ==
    \/ Construct
    \/ CalculateVolatility
    \/ SplitPeriod
    \/ ComparePeriodVolatility
    \/ GetSummaryStatistics
    \/ TakeOutcome

Spec == Init /\ [][Next]_vars

----------------------------------------------------------------------------
(* Exact arithmetic, for stating what the floating-point results should be *)

IsReal(x) == x.ty \in {"int", "float"} /\ x.k = "fin"
AllReal(seq) == \A i \in 1..Len(seq) : IsReal(seq[i])

\* Numeric equality and order of real values (1 equals 1.0).
SameValue(x, y) ==
    LET lo == Min2(x.e, y.e) IN x.m * Pow2(x.e - lo) = y.m * Pow2(y.e - lo)
AtMost(x, y) ==
    LET lo == Min2(x.e, y.e) IN x.m * Pow2(x.e - lo) <= y.m * Pow2(y.e - lo)
AllEqual(seq) == \A i, j \in 1..Len(seq) : SameValue(seq[i], seq[j])

RECURSIVE GCD(_, _)
GCD(a, b) == IF b = 0 THEN a ELSE GCD(b, a % b)

RECURSIVE OddPart(_)
OddPart(a) == IF a = 0 \/ a % 2 = 1 THEN a ELSE OddPart(a \div 2)

\* num / den (den > 0) is a float: in lowest terms the denominator is a power
\* of two and the numerator, less its factors of two, fits Prec bits.
Representable(num, den) ==
    LET g == GCD(Abs(num), den)
    IN  OddPart(den \div g) = 1 /\ OddPart(Abs(num) \div g) < Pow2(Prec)

ISqrt(a) == CHOOSE r \in 0..a : r * r <= a /\ a < (r + 1) * (r + 1)

\* The square root of num / den is a float.
RootRepresentable(num, den) ==
    LET g == GCD(num, den)
        a == num \div g
        b == den \div g
    IN  /\ ISqrt(a) * ISqrt(a) = a
        /\ ISqrt(b) * ISqrt(b) = b
        /\ Representable(ISqrt(a), ISqrt(b))

\* The elements of a real sequence as integers over the common denominator
\* Pow2(Shift(seq)).
Shift(seq) ==
    LET es == {-seq[i].e : i \in 1..Len(seq)} \cup {0}
    IN  CHOOSE k \in es : \A j \in es : j <= k
Scaled(seq) == [i \in 1..Len(seq) |-> seq[i].m * Pow2(seq[i].e + Shift(seq))]

RECURSIVE IntSum(_, _)
IntSum(xs, n) == IF n = 0 THEN 0 ELSE IntSum(xs, n - 1) + xs[n]

\* n^2 times the population variance of the integers xs:
\* n * sum(x^2) - sum(x)^2.
VarianceNumerator(xs) ==
    LET n == Len(xs)
    IN  n * IntSum([i \in 1..n |-> xs[i] * xs[i]], n) - IntSum(xs, n) * IntSum(xs, n)

\* No step of the volatility computation over the real sequence seq rounds:
\* the partial sums, the mean, the deviations, their squares, the partial
\* sums of the squares, the variance and its square root are all floats.
ComputedExactly(seq) ==
    LET n  == Len(seq)
        xs == Scaled(seq)
        D  == Pow2(Shift(seq))
        S  == IntSum(xs, n)
        dv == [i \in 1..n |-> n * xs[i] - S]
        sq == [i \in 1..n |-> dv[i] * dv[i]]
    IN  /\ \A j \in 1..n : Representable(IntSum(xs, j), D)
        /\ Representable(S, n * D)
        /\ \A i \in 1..n : Representable(dv[i], n * D)
        /\ \A i \in 1..n : Representable(sq[i], n * n * D * D)
        /\ \A j \in 1..n : Representable(IntSum(sq, j), n * n * D * D)
        /\ Representable(IntSum(sq, n), n * n * n * D * D)
        /\ RootRepresentable(VarianceNumerator(xs), n * n * D * D)

\* The population standard deviation of seq as the formula gives it, step by
\* step in floating point: mean = sum(x)/n, variance = sum((x - mean)^2)/n,
\* volatility = sqrt(variance).
PopulationStdDev(seq) ==
    LET n    == PyInt(Len(seq))
        mean == TrueDiv(sum(seq), n)
    IN  Sqrt(TrueDiv(sum([i \in 1..Len(seq) |-> Square(Sub(seq[i], mean))]), n))

\* The sequence the latest calculate_volatility call is about.
Subject == IF call.arg.none THEN daily_returns ELSE call.arg.seq

Called(op) == phase = "alive" /\ call.op = op /\ ret.st # "none"
Raised(exc, tb) == ret.st = "raise" /\ ret.exc = exc /\ ret.tb = tb

----------------------------------------------------------------------------
(* Claims *)

\* C1: calculate_volatility over a non-empty sequence (the argument, or the
\* stored series when the argument is omitted) returns the population
\* standard deviation: the result is the formula mean = sum(x)/n, variance =
\* sum((x - mean)^2)/n, volatility = sqrt(variance) evaluated in floating
\* point, and whenever no step rounds, the square v^2 of the result is exactly
\* the variance with divisor n: n^2 * v^2 = n * sum(x^2) - sum(x)^2.
C1_PopulationStdDev ==
    (Called("calculate_volatility") /\ Len(Subject) > 0) =>
        /\ ret = Return(PopulationStdDev(Subject))
        /\ (AllReal(Subject) /\ ComputedExactly(Subject)) =>
               LET v  == ret.val
                   n  == Len(Subject)
                   D  == Pow2(Shift(Subject))
                   up == IF v.e > 0 THEN Pow2(2 * v.e) ELSE 1
                   dn == IF v.e < 0 THEN Pow2(-2 * v.e) ELSE 1
               IN  /\ IsReal(v)
                   /\ v.m >= 0
                   /\ n * n * D * D * v.m * v.m * up = VarianceNumerator(Scaled(Subject)) * dn

\* C1 witness: a call over a sequence of unequal reals no step of which
\* rounds, returning a non-zero volatility.
C1_Witness ==
    /\ Called("calculate_volatility")
    /\ Len(Subject) >= 2
    /\ AllReal(Subject)
    /\ ~AllEqual(Subject)
    /\ ComputedExactly(Subject)
    /\ ret.st = "return"
    /\ ~IsZero(ret.val)

\* C2: split_period on an analyzer constructed over s of length n returns
\* (first_half, second_half) with first_half the first n \div 2 elements and
\* second_half the remaining n - n \div 2 in order, so that for odd n the
\* second half is the longer, and first_half \o second_half = s.
C2_SplitAtFloorHalf ==
    Called("split_period") =>
        /\ ret.st = "return"
        /\ LET n == Len(input)
               a == ret.val[1]
               b == ret.val[2]
           IN  /\ Len(a) = n \div 2
               /\ Len(b) = n - n \div 2
               /\ \A i \in 1..Len(a) : a[i] = input[i]
               /\ \A j \in 1..Len(b) : b[j] = input[n \div 2 + j]
               /\ n % 2 = 1 => Len(b) = Len(a) + 1
               /\ a \o b = input

\* C2 witness: a split of a series of odd length, at least 3.
C2_Witness ==
    /\ Called("split_period")
    /\ Len(input) >= 3
    /\ Len(input) % 2 = 1
    /\ ret.st = "return"
    /\ Len(ret.val[2]) = Len(ret.val[1]) + 1

\* The halves of the stored series as the split is specified.
FirstHalf == SubSeq(daily_returns, 1, Len(daily_returns) \div 2)
SecondHalf == SubSeq(daily_returns, Len(daily_returns) \div 2 + 1, Len(daily_returns))

\* C3: whenever compare_period_volatility returns, first_period_volatility
\* and second_period_volatility are the volatilities of the two halves,
\* volatility_change is second minus first, and volatility_change_percent is
\* (volatility_change / first_period_volatility) * 100.
C3_ComparisonFields ==
    (Called("compare_period_volatility") /\ ret.st = "return") =>
        /\ Len(FirstHalf) > 0
        /\ ret.val.first_period_volatility = PopulationStdDev(FirstHalf)
        /\ ret.val.second_period_volatility = PopulationStdDev(SecondHalf)
        /\ ret.val.volatility_change =
               Sub(ret.val.second_period_volatility, ret.val.first_period_volatility)
        /\ ~IsZero(ret.val.first_period_volatility)
        /\ ret.val.volatility_change_percent =
               Mul(TrueDiv(ret.val.volatility_change, ret.val.first_period_volatility),
                   PyInt(100))

\* C3 witness: a comparison that returns, with unequal real volatilities.
C3_Witness ==
    /\ Called("compare_period_volatility")
    /\ ret.st = "return"
    /\ IsReal(ret.val.volatility_change)
    /\ ~IsZero(ret.val.volatility_change)
    /\ ~IsZero(ret.val.second_period_volatility)

\* C4: when the first half of a series of length at least 2 consists of
\* identical values, compare_period_volatility raises the division-by-zero
\* error of the percentage computation (line 87) and returns no comparison.
C4_ConstantFirstHalfRaises ==
    ( /\ Called("compare_period_volatility")
      /\ Len(daily_returns) >= 2
      /\ AllReal(FirstHalf)
      /\ AllEqual(FirstHalf) ) => Raised("ZeroDivisionError", <<87>>)

\* C5: over a single-element series split_period returns an empty first half
\* and the element as second half, and compare_period_volatility raises the
\* division-by-zero error of calculate_volatility (line 51) called on the
\* first half (line 84).
C5_SingleElement ==
    /\ (Called("split_period") /\ Len(input) = 1) => ret = Return(<< <<>>, input >>)
    /\ (Called("compare_period_volatility") /\ Len(input) = 1) =>
           Raised("ZeroDivisionError", <<84, 51>>)

\* C5 witness: a comparison over a single-element series has raised.
C5_Witness ==
    /\ Called("compare_period_volatility")
    /\ Len(input) = 1
    /\ ret.st = "raise"

\* C6: calculate_volatility given an empty sequence raises the
\* division-by-zero error of line 51 and returns nothing; it uses the stored
\* series exactly when the argument is omitted, and a given sequence
\* otherwise.
C6_EmptyArgumentRaises ==
    Called("calculate_volatility") =>
        /\ (~call.arg.none /\ Len(call.arg.seq) = 0) => Raised("ZeroDivisionError", <<51>>)
        /\ (~call.arg.none /\ Len(call.arg.seq) > 0) =>
               ret = Return(PopulationStdDev(call.arg.seq))
        /\ call.arg.none => ret = Return(PopulationStdDev(daily_returns))

\* C6 witness: a call with an explicitly given empty sequence has raised.
C6_Witness ==
    /\ Called("calculate_volatility")
    /\ ~call.arg.none
    /\ Len(call.arg.seq) = 0
    /\ ret.st = "raise"

\* C7: construction raises ValueError, and no analyzer exists, when the
\* tuple is empty or holds an element that is not a real number; an analyzer
\* that exists stores the tuple it was given, of length at least 1.
C7_ConstructionValidates ==
    phase # "new" =>
        /\ (Len(input) = 0 \/ ~AllReal(input)) =>
               (phase = "failed" /\ ret.st = "raise" /\ ret.exc = "ValueError")
        /\ phase = "alive" => (Len(daily_returns) >= 1 /\ daily_returns = input)

\* C8: over a non-empty sequence of reals calculate_volatility returns a
\* value >= 0, which is 0 iff all elements are equal.
C8_ZeroIffConstant ==
    (Called("calculate_volatility") /\ Len(Subject) > 0 /\ AllReal(Subject)) =>
        /\ ret.st = "return"
        /\ IsReal(ret.val)
        /\ ret.val.m >= 0
        /\ IsZero(ret.val) <=> AllEqual(Subject)

\* m is an element of seq that is <= (>=) every element that is a number
\* (nan is ordered with nothing).
LeastOf(m, seq) ==
    /\ \E i \in 1..Len(seq) : seq[i] = m
    /\ \A i \in 1..Len(seq) : IsNaN(seq[i]) \/ (~IsNaN(m) /\ AtMost(m, seq[i]))
GreatestOf(m, seq) ==
    /\ \E i \in 1..Len(seq) : seq[i] = m
    /\ \A i \in 1..Len(seq) : IsNaN(seq[i]) \/ (~IsNaN(m) /\ AtMost(seq[i], m))

\* C9: get_summary_statistics on any analyzer returns count = n, min the
\* least and max the greatest element, mean = sum(s)/n and volatility the
\* volatility of the whole stored series.
C9_SummaryStatistics ==
    Called("get_summary_statistics") =>
        /\ ret.st = "return"
        /\ ret.val.count = PyInt(Len(daily_returns))
        /\ LeastOf(ret.val.min, daily_returns)
        /\ GreatestOf(ret.val.max, daily_returns)
        /\ ret.val.mean = TrueDiv(sum(daily_returns), PyInt(Len(daily_returns)))
        /\ ret.val.volatility = PopulationStdDev(daily_returns)

\* C10: once the analyzer exists its stored series is the tuple given at
\* construction and no call, returning or raising, changes it; a call made
\* again has the same outcome.
C10_SeriesNeverChanges ==
    /\ [](phase = "alive" => daily_returns = input)
    /\ [][phase = "alive" =>
             /\ phase' = "alive"
             /\ daily_returns' = daily_returns
             /\ input' = input
             /\ call' = call => ret' = ret]_vars

\* C10 witness: a call on a series of length at least 2 has raised and the
\* stored series is still the tuple given at construction.
C10_Witness ==
    /\ Called("compare_period_volatility")
    /\ ret.st = "raise"
    /\ Len(input) >= 2
    /\ daily_returns = input

====
